---- MODULE Spec2Model ----
(***************************************************************************)
(* Model of the audio-summarizer request pipeline:                         *)
(*   app.py                         process(), allowed_file()              *)
(*   src/preprocess.py              save_wav_mono_16k(), _load_audio()     *)
(*   src/asr_vosk.py                transcribe_file()                      *)
(*   src/summarizer_extractive.py   get_model(), sentence_tokenize(),      *)
(*                                  summarize_extract()                    *)
(* Text is a sequence of one-character strings; a message is a sequence of *)
(* string tokens (an f-string is the concatenation of its parts).          *)
(***************************************************************************)
EXTENDS Integers, Sequences, FiniteSets, TLC

VARIABLES
    pc,            \* position of the request inside process()
    req,           \* the multipart request: [hasField, filename, size]
    tmp_in,        \* local tmp_in of process(): "none" or the upload path
    wav_path,      \* local wav_path of process(): "none" or the WAV path
    file_size,     \* local file_size of process()
    fs,            \* the files that exist on disk
    created,       \* history: the files this request has created
    delAttempted,  \* history: the files os.remove was called on
    delFailed,     \* history: the files whose os.remove raised
    ci,            \* index of the cleanup loop over [tmp_in, wav_path]
    status,        \* HTTP status of the computed response (0: none yet)
    body,          \* body of the computed response: [tag, msg]
    calls,         \* history: the stages invoked, in order
    failed,        \* history: the stage that rejected or raised, or "none"
    wf,            \* the wave file handle: "none", "open", "closed"
    wavfmt,        \* [channels, width, rate] of the file at wav_path
    framesLeft,    \* frames of the waveform not yet read
    rec,           \* the recognizer: "none", "ready"
    fed,           \* number of chunks fed to AcceptWaveform
    utterances,    \* history: the raw results the recognizer reported
    flushes,       \* history: number of FinalResult() calls
    finalRes,      \* history: the raw result of the final flush
    segments,      \* local segments of transcribe_file()
    asrExit,       \* how transcribe_file() was left: "none", "return", "raise"
    transcript,    \* the transcript text
    top_k,         \* argument top_k of summarize_extract()
    sentences,     \* local sentences of summarize_extract()
    sumPath,       \* path taken by summarize_extract()
    embedReached,  \* history: number of get_model()/encode() calls reached
    summary,       \* returned summary text
    highlights,    \* returned highlights: sequence of [sentence, score]
    model,         \* global _model: 0 is None, otherwise a handle
    loads,         \* number of SentenceTransformer constructions so far
    tpc,           \* position of each thread inside get_model()
    built,         \* per thread: the handle it constructed (0: none)
    got            \* per thread: the handle get_model() returned (0: none)

vars == <<pc, req, tmp_in, wav_path, file_size, fs, created,
          delAttempted, delFailed, ci, status, body, calls, failed, wf,
          wavfmt, framesLeft, rec, fed, utterances, flushes, finalRes,
          segments, asrExit, transcript, top_k, sentences, sumPath,
          embedReached, summary, highlights, model, loads, tpc, built, got>>

reqVars  == <<req, tmp_in, wav_path, file_size, fs, created,
              delAttempted, delFailed, ci>>
respVars == <<status, body, failed>>
asrVars  == <<wf, wavfmt, framesLeft, rec, fed, utterances, flushes,
              finalRes, segments, asrExit>>
sumVars  == <<top_k, sentences, sumPath, embedReached, summary, highlights>>
gmVars   == <<model, loads, tpc, built, got>>

(***************************************************************************)
(* Bounds of the model and constants of the program                        *)
(***************************************************************************)
MaxPieces == 5       \* pieces a generated transcript is concatenated from
MaxK == 2            \* largest top_k tried on summarize_extract directly
MaxScore == 1        \* similarity scores range over -MaxScore..MaxScore
MaxChunks == 2       \* the waveform holds at most MaxChunks chunks
NThreads == 3        \* request threads that may reach get_model()

TopK == 5            \* app.py:152
MinSentenceLen == 3  \* summarizer_extractive.py:48
ChunkFrames == 4000  \* asr_vosk.py:57
TargetRate == 16000  \* asr_vosk.py:44, preprocess.py:8
MonoChannels == 1    \* asr_vosk.py:36
SampleWidth == 2     \* asr_vosk.py:40

Threads == 1..NThreads
Main == 1            \* the thread of the request that process() serves

(***************************************************************************)
(* Text helpers: str.strip, re.split, " ".join                             *)
(***************************************************************************)
IsSpace(c) == c \in {" ", "\t"}
IsPunct(c) == c \in {".", "!", "?"}

RECURSIVE LStrip(_)
LStrip(s) == IF s # <<>> /\ IsSpace(Head(s)) THEN LStrip(Tail(s)) ELSE s

RECURSIVE RStrip(_)
RStrip(s) ==
    IF s # <<>> /\ IsSpace(s[Len(s)])
    THEN RStrip(SubSeq(s, 1, Len(s) - 1)) ELSE s

Strip(s) == RStrip(LStrip(s))

\* index of the first non-space character at or after i, or Len(s) + 1
RECURSIVE SkipSpace(_, _)
SkipSpace(s, i) ==
    IF i <= Len(s) /\ IsSpace(s[i]) THEN SkipSpace(s, i + 1) ELSE i

\* re.split(r'(?<=[.!?])\s+', text): cut at each maximal whitespace run
\* that directly follows a sentence-ending mark
RECURSIVE ReSplitFrom(_, _, _)
ReSplitFrom(s, i, cur) ==
    IF i > Len(s) THEN <<cur>>
    ELSE IF i > 1 /\ IsPunct(s[i - 1]) /\ IsSpace(s[i])
         THEN <<cur>> \o ReSplitFrom(s, SkipSpace(s, i), <<>>)
         ELSE ReSplitFrom(s, i + 1, Append(cur, s[i]))

ReSplit(s) == ReSplitFrom(s, 1, <<>>)

RECURSIVE Join(_)
Join(ss) ==
    IF ss = <<>> THEN <<>>
    ELSE IF Len(ss) = 1 THEN ss[1]
    ELSE ss[1] \o <<" ">> \o Join(Tail(ss))

NonEmpty(s) == s # <<>>
LongEnough(s) == Len(s) > MinSentenceLen

sentence_tokenize(text) ==
    IF Strip(text) = <<>> THEN <<>>
    ELSE LET parts    == ReSplit(text)
             stripped == [i \in 1..Len(parts) |-> Strip(parts[i])]
         IN SelectSeq(SelectSeq(stripped, NonEmpty), LongEnough)

(***************************************************************************)
(* summarize_extract: the three ways it builds its result                  *)
(***************************************************************************)
ScoreOne  == MaxScore     \* the float 1.0 in score units
ScoreZero == 0            \* the float 0.0

Scored(sents, sc) == [i \in 1..Len(sents) |-> [sentence |-> sents[i], score |-> sc]]

\* mutant: the summary is rebuilt from the sentences
ShortResultM(text, sents) ==
    [summary |-> Join(sents), highlights |-> Scored(sents, ScoreOne)]

\* lines 75-81: every sentence, original order, score 1.0, stripped input
ShortResult(text, sents) ==
    [summary |-> Strip(text), highlights |-> Scored(sents, ScoreOne)]

\* mutant: the fallback keeps every sentence
FallbackResultM(sents, k) ==
    [summary |-> Join(sents), highlights |-> Scored(sents, ScoreZero)]

\* lines 112-120: the first top_k sentences, score 0.0
FallbackResult(sents, k) ==
    LET first == SubSeq(sents, 1, IF k < Len(sents) THEN k ELSE Len(sents))
    IN [summary |-> Join(first), highlights |-> Scored(first, ScoreZero)]

Min2(a, b) == IF a < b THEN a ELSE b

\* np.argsort(scores): the permutations of the indices that sort scores
\* ascending; the order among equal scores is not specified by the default
\* sort, so every such permutation is a possible result
RECURSIVE SortsOf(_, _)
SortsOf(scores, S) ==
    IF S = {} THEN {<<>>}
    ELSE UNION {{<<m>> \o r : r \in SortsOf(scores, S \ {m})} :
                  m \in {x \in S : \A y \in S : scores[x] <= scores[y]}}

ArgSorts(scores) == SortsOf(scores, DOMAIN scores)

\* line 98: np.argsort(scores)[-k:][::-1]; the slice [-k:] is the whole
\* array when k is 0 or exceeds its length
TopIndices(order, k) ==
    LET n == Len(order)
        m == IF k = 0 THEN n ELSE Min2(k, n)
    IN [i \in 1..m |-> order[n - i + 1]]

\* sorted(top_indices)
RECURSIVE SortedSeq(_)
SortedSeq(S) ==
    IF S = {} THEN <<>>
    ELSE LET m == CHOOSE x \in S : \A y \in S : x <= y
         IN <<m>> \o SortedSeq(S \ {m})

Range(f) == {f[i] : i \in DOMAIN f}

\* mutant: the selected indices are not sorted back into document order
OrderedIndicesM(top) == top

OrderedIndices(top) == SortedSeq(Range(top))

\* lines 97-110
EmbedResult(sents, k, scores, order) ==
    LET kk  == Min2(k, Len(sents))
        top == TopIndices(order, kk)
        ord == OrderedIndices(top)
    IN [summary    |-> Join([i \in 1..Len(ord) |-> sents[ord[i]]]),
        highlights |-> [i \in 1..Len(top) |->
                          [sentence |-> sents[top[i]], score |-> scores[top[i]]]]]

(***************************************************************************)
(* Inputs                                                                  *)
(***************************************************************************)
S1 == <<"a", "b", "c", "d", ".">>
S2 == <<"d", "c", "b", "a", "?">>
S3 == <<"a", "b", "!">>
SP == <<" ">>
Pieces == {S1, S2, S3, SP}

RECURSIVE Flatten(_)
Flatten(ps) == IF ps = <<>> THEN <<>> ELSE Head(ps) \o Flatten(Tail(ps))

Transcripts ==
    {Flatten(ps) : ps \in UNION {[1..n -> Pieces] : n \in 0..MaxPieces}}

ScoreValues == (0 - MaxScore)..MaxScore
Levels == 2 * MaxScore + 1

\* the score vectors the embedding may yield for n sentences: every vector
\* for short documents, two profiles (cyclic, descending blocks) for long ones
ScoreVectors(n) ==
    IF n <= MaxK + 1 THEN [1..n -> ScoreValues]
    ELSE {[i \in 1..n |-> (i % Levels) - MaxScore],
          [i \in 1..n |-> (((n - i) * Levels) \div n) - MaxScore]}

NoBody == [tag |-> "none", msg |-> <<>>]
NoRaw  == [has |-> FALSE, text |-> <<>>]
NoReq  == [hasField |-> TRUE, filename |-> <<"a", ".", "w", "a", "v">>, size |-> 1]
GoodFmt == [channels |-> MonoChannels, width |-> SampleWidth, rate |-> TargetRate]

Stages == <<"validate", "persist", "empty_check", "normalize", "recognize",
            "summarize", "respond">>

\* the summarizer group before summarize_extract is entered
SumIdle ==
    /\ sentences = <<>>
    /\ sumPath = "none"
    /\ embedReached = 0
    /\ summary = <<>>
    /\ highlights = <<>>

\* the model cache of a fresh process
GmIdle ==
    /\ model = 0
    /\ loads = 0
    /\ tpc = [t \in Threads |-> "idle"]
    /\ built = [t \in Threads |-> 0]
    /\ got = [t \in Threads |-> 0]

\* the recognizer group before transcribe_file is entered
AsrIdle ==
    /\ wf = "none"
    /\ framesLeft = 0
    /\ rec = "none"
    /\ fed = 0
    /\ utterances = <<>>
    /\ flushes = 0
    /\ finalRes = NoRaw
    /\ segments = <<>>
    /\ asrExit = "none"

\* process() after a normalized WAV was written (app.py:142 returned)
Normalized ==
    /\ req = NoReq
    /\ tmp_in = "upload"
    /\ wav_path = "wav"
    /\ file_size = 1
    /\ fs = {"upload", "wav"}
    /\ created = {"upload", "wav"}
    /\ delAttempted = {}
    /\ delFailed = {}
    /\ ci = 1
    /\ status = 0
    /\ body = NoBody
    /\ failed = "none"

(***************************************************************************)
(* get_model(): summarizer_extractive.py:12-23, one step per line          *)
(***************************************************************************)
\* line 18: if _model is None
GmCheck(t) ==
    /\ tpc[t] = "check"
    /\ tpc' = [tpc EXCEPT ![t] = IF model = 0 THEN "construct" ELSE "return"]
    /\ UNCHANGED <<model, loads, built, got>>

\* line 20, right-hand side: SentenceTransformer(...) builds a new handle
GmConstruct(t) ==
    /\ tpc[t] = "construct"
    /\ loads' = loads + 1
    /\ built' = [built EXCEPT ![t] = loads + 1]
    /\ tpc' = [tpc EXCEPT ![t] = "store"]
    /\ UNCHANGED <<model, got>>

\* lines 21-22: the constructor raised
GmConstructFail(t) ==
    /\ tpc[t] = "construct"
    /\ tpc' = [tpc EXCEPT ![t] = "raised"]
    /\ UNCHANGED <<model, loads, built, got>>

\* line 20, assignment to the global
GmStore(t) ==
    /\ tpc[t] = "store"
    /\ model' = built[t]
    /\ tpc' = [tpc EXCEPT ![t] = "return"]
    /\ UNCHANGED <<loads, built, got>>

\* line 23: return _model
GmReturn(t) ==
    /\ tpc[t] = "return"
    /\ got' = [got EXCEPT ![t] = model]
    /\ tpc' = [tpc EXCEPT ![t] = "returned"]
    /\ UNCHANGED <<model, loads, built>>

GetModelStep(t) ==
    /\ \/ GmCheck(t)
       \/ GmConstruct(t)
       \/ GmConstructFail(t)
       \/ GmStore(t)
       \/ GmReturn(t)
    /\ UNCHANGED <<pc, reqVars, respVars, calls, asrVars, transcript, sumVars>>

(***************************************************************************)
(* summarize_extract(): summarizer_extractive.py:53-120                    *)
(***************************************************************************)
\* lines 69-72: no sentence
SummarizeNone ==
    /\ pc = "summarize"
    /\ sentence_tokenize(transcript) = <<>>
    /\ sentences' = <<>>
    /\ sumPath' = "empty"
    /\ summary' = <<>>
    /\ highlights' = <<>>
    /\ calls' = Append(calls, "summarize")
    /\ pc' = "respond"
    /\ UNCHANGED <<reqVars, respVars, asrVars, transcript, top_k,
                   embedReached, gmVars>>

\* lines 75-81: at most top_k sentences
SummarizeShort ==
    /\ pc = "summarize"
    /\ LET sents == sentence_tokenize(transcript)
           r     == ShortResult(transcript, sents)
       IN /\ Len(sents) # 0
          /\ Len(sents) <= top_k
          /\ sentences' = sents
          /\ summary' = r.summary
          /\ highlights' = r.highlights
    /\ sumPath' = "short"
    /\ calls' = Append(calls, "summarize")
    /\ pc' = "respond"
    /\ UNCHANGED <<reqVars, respVars, asrVars, transcript, top_k,
                   embedReached, gmVars>>

\* lines 83-85: more than top_k sentences, get_model() is called
SummarizeTry ==
    /\ pc = "summarize"
    /\ LET sents == sentence_tokenize(transcript)
       IN /\ Len(sents) > top_k
          /\ sentences' = sents
    /\ embedReached' = embedReached + 1
    /\ tpc' = [tpc EXCEPT ![Main] = "check"]
    /\ calls' = Append(calls, "summarize")
    /\ pc' = "get_model"
    /\ UNCHANGED <<reqVars, respVars, asrVars, transcript, top_k, sumPath,
                   summary, highlights, model, loads, built, got>>

\* lines 88-110: encode, score and select succeed
SummarizeEmbed ==
    /\ pc = "get_model"
    /\ tpc[Main] = "returned"
    /\ \E scores \in ScoreVectors(Len(sentences)) :
         \E order \in ArgSorts(scores) :
           LET r == EmbedResult(sentences, top_k, scores, order)
           IN /\ summary' = r.summary
              /\ highlights' = r.highlights
    /\ sumPath' = "embed"
    /\ tpc' = [tpc EXCEPT ![Main] = "idle"]
    /\ pc' = "respond"
    /\ UNCHANGED <<reqVars, respVars, calls, asrVars, transcript, top_k,
                   sentences, embedReached, model, loads, built, got>>

\* the except clause: the first top_k sentences with score 0.0
Fallback ==
    LET r == FallbackResult(sentences, top_k)
    IN /\ summary' = r.summary
       /\ highlights' = r.highlights
       /\ sumPath' = "fallback"
       /\ tpc' = [tpc EXCEPT ![Main] = "idle"]
       /\ pc' = "respond"
       /\ UNCHANGED <<reqVars, respVars, calls, asrVars, transcript, top_k,
                      sentences, embedReached, model, loads, built, got>>

\* lines 88-98 raise (encode, mean, cosine_similarity, argsort): lines 112-120
SummarizeEncodeFail ==
    /\ pc = "get_model"
    /\ tpc[Main] = "returned"
    /\ Fallback

\* get_model() raised at line 22: lines 112-120
SummarizeLoadFail ==
    /\ pc = "get_model"
    /\ tpc[Main] = "raised"
    /\ Fallback


(***************************************************************************)
(* Exceptions and their translation at the request boundary                *)
(***************************************************************************)
Ok == [kind |-> "ok", msg |-> <<>>]
ValueError(m) == [kind |-> "ValueError", msg |-> m]
OtherError(m) == [kind |-> "Exception", msg |-> m]

\* app.py:170-174: the except clauses of process()
HandleStatus(e) == IF e.kind = "ValueError" THEN 400 ELSE 500

HandleBody(e) ==
    [tag |-> "error",
     msg |-> (IF e.kind = "ValueError"
              THEN <<"Audio format error: ">> ELSE <<"Processing failed: ">>) \o e.msg]

\* a return jsonify({"error": ...}), 400 inside the try block
Reject(stage, m) ==
    /\ status' = 400
    /\ body' = [tag |-> "error", msg |-> m]
    /\ failed' = stage
    /\ pc' = "finally"

\* an exception leaves the try block and is translated
Raise(stage, e) ==
    /\ status' = HandleStatus(e)
    /\ body' = HandleBody(e)
    /\ failed' = stage
    /\ pc' = "finally"

(***************************************************************************)
(* File names: os.path.splitext, str.lower, secure_filename                *)
(***************************************************************************)
Lower(c) ==
    CASE c = "A" -> "a" [] c = "W" -> "w" [] c = "V" -> "v" [] OTHER -> c

LowerAll(name) == [i \in 1..Len(name) |-> Lower(name[i])]

Dots(name) == {i \in 1..Len(name) : name[i] = "."}

\* the extension starts at the last dot, unless only dots precede it
SplitExt(name) ==
    IF Dots(name) = {} THEN <<>>
    ELSE LET d == CHOOSE i \in Dots(name) : \A j \in Dots(name) : j <= i
         IN IF \A j \in 1..(d - 1) : name[j] = "." THEN <<>>
            ELSE SubSeq(name, d, Len(name))

ALLOWED_EXT ==
    {<<".", "w", "a", "v">>, <<".", "m", "p", "3">>, <<".", "m", "4", "a">>,
     <<".", "f", "l", "a", "c">>, <<".", "o", "g", "g">>,
     <<".", "w", "e", "b", "m">>}

\* mutant: any extension at all is accepted
allowed_fileM(filename) == SplitExt(LowerAll(filename)) # <<>>

allowed_file(filename) == SplitExt(LowerAll(filename)) \in ALLOWED_EXT

IsSafeChar(c) == c # "?"
IsEdgeChar(c) == c \in {".", "_"}

RECURSIVE StripEdge(_)
StripEdge(s) ==
    IF s # <<>> /\ IsEdgeChar(Head(s)) THEN StripEdge(Tail(s))
    ELSE IF s # <<>> /\ IsEdgeChar(s[Len(s)])
         THEN StripEdge(SubSeq(s, 1, Len(s) - 1))
         ELSE s

\* werkzeug's secure_filename on these names: unsafe characters are
\* removed, then leading and trailing dots and underscores
secure_filename(name) == StripEdge(SelectSeq(name, IsSafeChar))

Filenames ==
    {<<>>,
     <<"n", "o", "t", "e", "s", ".", "t", "x", "t">>,
     <<"a", ".", "w", "a", "v">>,
     <<"A", ".", "W", "A", "V">>,
     <<".", "w", "a", "v">>,
     <<"x", ".", "w", "e", "b", "m">>,
     <<"?", ".", "m", "p", "3">>}

Requests ==
    {[hasField |-> FALSE, filename |-> <<>>, size |-> 0]}
    \cup {[hasField |-> TRUE, filename |-> f, size |-> z] :
            f \in Filenames, z \in {0, 1}}

\* extension of the persisted upload (app.py:123-129)
UploadExt(filename) ==
    LET fname == secure_filename(filename)
    IN SplitExt(IF fname = <<>> THEN <<"u", "p", "l", "o", "a", "d">> ELSE fname)

(***************************************************************************)
(* save_wav_mono_16k(): preprocess.py                                      *)
(***************************************************************************)
Envs ==
    [librosa : {"ok", "raise"},
     pydub   : {"ok", "missing", "raise"},
     post    : {"ok", "resample_raise", "silent", "write_raise"}]

\* preprocess.py:71-114
load_via_pydub(e) ==
    IF e.pydub = "missing"
    THEN ValueError(<<"pydub is required for this audio format. ">>)
    ELSE IF e.pydub = "raise"
    THEN ValueError(<<"Failed to convert audio file: ", "<decoder>",
                      ". Make sure ffmpeg is installed on your system.">>)
    ELSE Ok

\* preprocess.py:48-68
load_audio(ext, e) ==
    IF LowerAll(ext) = <<".", "w", "e", "b", "m">> THEN load_via_pydub(e)
    ELSE IF e.librosa = "ok" THEN Ok
    ELSE load_via_pydub(e)

\* preprocess.py:22-40: the body of the try block
NormalizeBody(ext, e) ==
    LET r == load_audio(ext, e)
    IN IF r.kind # "ok" THEN r
       ELSE IF e.post = "resample_raise" THEN OtherError(<<"<resample>">>)
       ELSE IF e.post = "silent"
            THEN ValueError(<<"Audio file contains only silence">>)
       ELSE IF e.post = "write_raise" THEN OtherError(<<"<soundfile>">>)
       ELSE Ok

\* mutant: the generic except clause re-raises the exception unchanged
WrapErrorsM(r) == r

\* preprocess.py:42-45: the except clauses
WrapErrors(r) ==
    IF r.kind = "Exception"
    THEN ValueError(<<"Failed to process audio file: ">> \o r.msg)
    ELSE r

save_wav_mono_16k(ext, e) == WrapErrors(NormalizeBody(ext, e))

(***************************************************************************)
(* process(): app.py:102-183, validation to normalization                  *)
(***************************************************************************)
\* lines 110-111
ValidateNoField ==
    /\ pc = "validate"
    /\ ~req.hasField
    /\ Reject("validate", <<"No file uploaded">>)
    /\ calls' = Append(calls, "validate")
    /\ UNCHANGED <<reqVars, asrVars, transcript, sumVars, gmVars>>

\* lines 113-115
ValidateNoName ==
    /\ pc = "validate"
    /\ req.hasField
    /\ req.filename = <<>>
    /\ Reject("validate", <<"No file selected">>)
    /\ calls' = Append(calls, "validate")
    /\ UNCHANGED <<reqVars, asrVars, transcript, sumVars, gmVars>>

\* lines 117-120
ValidateBadType ==
    /\ pc = "validate"
    /\ req.hasField
    /\ req.filename # <<>>
    /\ ~allowed_file(req.filename)
    /\ Reject("validate", <<"Invalid file type. Allowed: ",
                            ".flac, .m4a, .mp3, .ogg, .wav, .webm">>)
    /\ calls' = Append(calls, "validate")
    /\ UNCHANGED <<reqVars, asrVars, transcript, sumVars, gmVars>>

ValidatePass ==
    /\ pc = "validate"
    /\ req.hasField
    /\ req.filename # <<>>
    /\ allowed_file(req.filename)
    /\ calls' = Append(calls, "validate")
    /\ pc' = "persist"
    /\ UNCHANGED <<reqVars, respVars, asrVars, transcript, sumVars, gmVars>>

\* lines 123-131: f.save(tmp_in) succeeds
Persist ==
    /\ pc = "persist"
    /\ tmp_in' = "upload"
    /\ fs' = fs \cup {"upload"}
    /\ created' = created \cup {"upload"}
    /\ calls' = Append(calls, "persist")
    /\ pc' = "empty_check"
    /\ UNCHANGED <<req, wav_path, file_size, delAttempted, delFailed, ci,
                   respVars, asrVars, transcript, sumVars, gmVars>>

\* lines 123-131: f.save(tmp_in) raises, with or without a file left behind
PersistFail ==
    /\ pc = "persist"
    /\ tmp_in' = "upload"
    /\ \E left \in BOOLEAN :
         /\ fs' = IF left THEN fs \cup {"upload"} ELSE fs
         /\ created' = IF left THEN created \cup {"upload"} ELSE created
    /\ calls' = Append(calls, "persist")
    /\ Raise("persist", OtherError(<<"<os>">>))
    /\ UNCHANGED <<req, wav_path, file_size, delAttempted, delFailed, ci,
                   asrVars, transcript, sumVars, gmVars>>

\* lines 134-136
EmptyReject ==
    /\ pc = "empty_check"
    /\ req.size = 0
    /\ file_size' = req.size
    /\ calls' = Append(calls, "empty_check")
    /\ Reject("empty_check", <<"Uploaded file is empty">>)
    /\ UNCHANGED <<req, tmp_in, wav_path, fs, created, delAttempted,
                   delFailed, ci, asrVars, transcript, sumVars, gmVars>>

EmptyPass ==
    /\ pc = "empty_check"
    /\ req.size # 0
    /\ file_size' = req.size
    /\ calls' = Append(calls, "empty_check")
    /\ pc' = "normalize"
    /\ UNCHANGED <<req, tmp_in, wav_path, fs, created, delAttempted,
                   delFailed, ci, respVars, asrVars, transcript, sumVars, gmVars>>

\* the frame counts tried: on and just below each chunk boundary
FrameCounts ==
    {c * ChunkFrames - r : c \in 1..MaxChunks, r \in {0, 1}}

\* lines 139-142: the temporary WAV is created, save_wav_mono_16k returns
Normalize ==
    /\ pc = "normalize"
    /\ wav_path' = "wav"
    /\ fs' = fs \cup {"wav"}
    /\ created' = created \cup {"wav"}
    /\ calls' = Append(calls, "normalize")
    /\ \E e \in Envs :
         save_wav_mono_16k(UploadExt(req.filename), e).kind = "ok"
    /\ wavfmt' = GoodFmt
    /\ \E n \in FrameCounts : framesLeft' = n
    /\ pc' = "recognize"
    /\ UNCHANGED <<req, tmp_in, file_size, delAttempted, delFailed, ci,
                   respVars, wf, rec, fed, utterances, flushes, finalRes,
                   segments, asrExit, transcript, sumVars, gmVars>>

\* lines 139-142: the temporary WAV is created, save_wav_mono_16k raises
NormalizeFail ==
    /\ pc = "normalize"
    /\ wav_path' = "wav"
    /\ fs' = fs \cup {"wav"}
    /\ created' = created \cup {"wav"}
    /\ calls' = Append(calls, "normalize")
    /\ \E e \in Envs :
         LET r == save_wav_mono_16k(UploadExt(req.filename), e)
         IN /\ r.kind # "ok"
            /\ Raise("normalize", r)
    /\ UNCHANGED <<req, tmp_in, file_size, delAttempted, delFailed, ci,
                   asrVars, transcript, sumVars, gmVars>>

(***************************************************************************)
(* transcribe_file(): asr_vosk.py:6-92                                     *)
(***************************************************************************)
T2 == S1 \o SP \o S2
Texts == {<<>>, SP, SP \o S2 \o SP, S3, T2}

\* json.loads(rec.Result()): with or without a 'text' key
RawResults == {NoRaw} \cup {[has |-> TRUE, text |-> t] : t \in Texts}

\* what the third-party calls may raise
Raised == {ValueError(<<"<json>">>), OtherError(<<"<vosk>">>)}

\* mutant: the sample width is not checked
FormatCheckM(fmt) ==
    IF fmt.channels # MonoChannels
    THEN ValueError(<<"WAV must be mono (1 channel), got ",
                      ToString(fmt.channels), " channels">>)
    ELSE IF fmt.rate # TargetRate
    THEN ValueError(<<"WAV must be 16kHz, got ", ToString(fmt.rate), "Hz">>)
    ELSE Ok

\* lines 36-46: the first violated precondition, or Ok
FormatCheck(fmt) ==
    IF fmt.channels # MonoChannels
    THEN ValueError(<<"WAV must be mono (1 channel), got ",
                      ToString(fmt.channels), " channels">>)
    ELSE IF fmt.width # SampleWidth
    THEN ValueError(<<"WAV must be 16-bit (2 bytes), got ",
                      ToString(fmt.width), " bytes">>)
    ELSE IF fmt.rate # TargetRate
    THEN ValueError(<<"WAV must be 16kHz, got ", ToString(fmt.rate), "Hz">>)
    ELSE Ok

\* mutant: a result with a blank text becomes a segment too
AddSegmentM(segs, raw) ==
    IF raw.has THEN Append(segs, [text |-> Strip(raw.text)]) ELSE segs

\* lines 65-73 and 77-84: a result becomes a segment if its text is not blank
AddSegment(segs, raw) ==
    IF raw.has /\ Strip(raw.text) # <<>>
    THEN Append(segs, [text |-> Strip(raw.text)])
    ELSE segs

\* line 90
BuildTranscript(segs) == Join([i \in 1..Len(segs) |-> Strip(segs[i].text)])

\* what leaving the try block of lines 54-87 does to the handle
AfterFinally(h) == "closed"

\* lines 23-25: Model(model_path) loads
AsrLoadModel ==
    /\ pc = "recognize"
    /\ calls' = Append(calls, "recognize")
    /\ pc' = "asr_open"
    /\ UNCHANGED <<reqVars, respVars, asrVars, transcript, sumVars, gmVars>>

\* lines 26-27
AsrLoadModelFail ==
    /\ pc = "recognize"
    /\ calls' = Append(calls, "recognize")
    /\ asrExit' = "raise"
    /\ Raise("recognize", OtherError(<<"Failed to load Vosk model from ",
                                       "models/vosk-model", ": ", "<vosk>">>))
    /\ UNCHANGED <<reqVars, wf, wavfmt, framesLeft, rec, fed, utterances,
                   flushes, finalRes, segments, transcript, sumVars, gmVars>>

\* lines 30-31
AsrOpen ==
    /\ pc = "asr_open"
    /\ wf' = "open"
    /\ pc' = "asr_validate"
    /\ UNCHANGED <<reqVars, respVars, calls, wavfmt, framesLeft, rec, fed,
                   utterances, flushes, finalRes, segments, asrExit,
                   transcript, sumVars, gmVars>>

\* lines 32-33
AsrOpenFail ==
    /\ pc = "asr_open"
    /\ asrExit' = "raise"
    /\ Raise("recognize", ValueError(<<"Failed to open WAV file: ", "<wave>">>))
    /\ UNCHANGED <<reqVars, calls, wf, wavfmt, framesLeft, rec, fed,
                   utterances, flushes, finalRes, segments, transcript,
                   sumVars, gmVars>>

\* lines 36-50: a violated precondition closes the handle and raises;
\* otherwise the recognizer is built and configured
AsrValidate ==
    /\ pc = "asr_validate"
    /\ IF FormatCheck(wavfmt).kind # "ok"
       THEN /\ wf' = "closed"
            /\ asrExit' = "raise"
            /\ Raise("recognize", FormatCheck(wavfmt))
            /\ UNCHANGED rec
       ELSE /\ rec' = "ready"
            /\ pc' = "asr_loop"
            /\ UNCHANGED <<respVars, wf, asrExit>>
    /\ UNCHANGED <<reqVars, calls, wavfmt, framesLeft, fed, utterances,
                   flushes, finalRes, segments, transcript, sumVars, gmVars>>

\* lines 49-50 raise: KaldiRecognizer(...) or SetWords, outside the try block
AsrInitFail ==
    /\ pc = "asr_validate"
    /\ FormatCheck(wavfmt).kind = "ok"
    /\ asrExit' = "raise"
    /\ Raise("recognize", OtherError(<<"<vosk>">>))
    /\ UNCHANGED <<reqVars, calls, wf, wavfmt, framesLeft, rec, fed,
                   utterances, flushes, finalRes, segments, transcript,
                   sumVars, gmVars>>

\* lines 57-61: a chunk is read and fed, no utterance is complete yet
AsrChunkPartial ==
    /\ pc = "asr_loop"
    /\ framesLeft > 0
    /\ framesLeft' = framesLeft - Min2(ChunkFrames, framesLeft)
    /\ fed' = fed + 1
    /\ UNCHANGED <<pc, reqVars, respVars, calls, wf, wavfmt, rec, utterances,
                   flushes, finalRes, segments, asrExit, transcript, sumVars,
                   gmVars>>

\* lines 57-73: a chunk is read and fed, the recognizer reports an utterance
AsrChunkUtterance ==
    /\ pc = "asr_loop"
    /\ framesLeft > 0
    /\ framesLeft' = framesLeft - Min2(ChunkFrames, framesLeft)
    /\ fed' = fed + 1
    /\ \E raw \in RawResults :
         /\ utterances' = Append(utterances, raw)
         /\ segments' = AddSegment(segments, raw)
    /\ UNCHANGED <<pc, reqVars, respVars, calls, wf, wavfmt, rec, flushes,
                   finalRes, asrExit, transcript, sumVars, gmVars>>

\* lines 57-62 raise (AcceptWaveform, json.loads): the finally clause runs
AsrChunkFail ==
    /\ pc = "asr_loop"
    /\ framesLeft > 0
    /\ framesLeft' = framesLeft - Min2(ChunkFrames, framesLeft)
    /\ fed' = fed + 1
    /\ wf' = AfterFinally(wf)
    /\ asrExit' = "raise"
    /\ \E e \in Raised : Raise("recognize", e)
    /\ UNCHANGED <<reqVars, calls, wavfmt, rec, utterances, flushes, finalRes,
                   segments, transcript, sumVars, gmVars>>

\* lines 58-59 and 76-92: the input is exhausted, the final flush, the return
AsrFinal ==
    /\ pc = "asr_loop"
    /\ framesLeft = 0
    /\ flushes' = flushes + 1
    /\ \E raw \in RawResults :
         /\ finalRes' = raw
         /\ segments' = AddSegment(segments, raw)
    /\ wf' = AfterFinally(wf)
    /\ transcript' = BuildTranscript(segments')
    /\ asrExit' = "return"
    /\ pc' = "check_transcript"
    /\ UNCHANGED <<reqVars, respVars, calls, wavfmt, framesLeft, rec, fed,
                   utterances, sumVars, gmVars>>

\* line 76 raises (FinalResult, json.loads): the finally clause runs
AsrFinalFail ==
    /\ pc = "asr_loop"
    /\ framesLeft = 0
    /\ flushes' = flushes + 1
    /\ wf' = AfterFinally(wf)
    /\ asrExit' = "raise"
    /\ \E e \in Raised : Raise("recognize", e)
    /\ UNCHANGED <<reqVars, calls, wavfmt, framesLeft, rec, fed, utterances,
                   finalRes, segments, transcript, sumVars, gmVars>>

(***************************************************************************)
(* process(): app.py:147-183, transcript check, response and cleanup       *)
(***************************************************************************)
\* lines 148-149
TranscriptReject ==
    /\ pc = "check_transcript"
    /\ (transcript = <<>> \/ Strip(transcript) = <<>>)
    /\ Reject("recognize", <<"No speech detected in audio file">>)
    /\ UNCHANGED <<reqVars, calls, asrVars, transcript, sumVars, gmVars>>

TranscriptPass ==
    /\ pc = "check_transcript"
    /\ ~(transcript = <<>> \/ Strip(transcript) = <<>>)
    /\ pc' = "summarize"
    /\ UNCHANGED <<reqVars, respVars, calls, asrVars, transcript, sumVars,
                   gmVars>>

\* lines 154-168: keywords, stats, the success response
Respond ==
    /\ pc = "respond"
    /\ calls' = Append(calls, "respond")
    /\ status' = 200
    /\ body' = [tag |-> "result", msg |-> <<>>]
    /\ pc' = "finally"
    /\ UNCHANGED <<reqVars, failed, asrVars, transcript, sumVars, gmVars>>

\* mutant: the finally clause forgets the intermediate WAV
CleanupPathsM == <<tmp_in>>

\* line 178: the paths the finally clause walks
CleanupPaths == <<tmp_in, wav_path>>

cleanupRest == <<req, tmp_in, wav_path, file_size, created, respVars,
                 calls, asrVars, transcript, sumVars, gmVars>>

\* lines 179-181: the path is set and exists, os.remove succeeds
CleanupRemove ==
    /\ pc = "finally"
    /\ ci <= Len(CleanupPaths)
    /\ CleanupPaths[ci] # "none"
    /\ CleanupPaths[ci] \in fs
    /\ fs' = fs \ {CleanupPaths[ci]}
    /\ delAttempted' = delAttempted \cup {CleanupPaths[ci]}
    /\ ci' = ci + 1
    /\ UNCHANGED <<pc, delFailed, cleanupRest>>

\* lines 179-183: os.remove raises, the error is printed
CleanupRemoveFail ==
    /\ pc = "finally"
    /\ ci <= Len(CleanupPaths)
    /\ CleanupPaths[ci] # "none"
    /\ CleanupPaths[ci] \in fs
    /\ delAttempted' = delAttempted \cup {CleanupPaths[ci]}
    /\ delFailed' = delFailed \cup {CleanupPaths[ci]}
    /\ ci' = ci + 1
    /\ UNCHANGED <<pc, fs, cleanupRest>>

\* line 179: the path is None or does not exist
CleanupSkip ==
    /\ pc = "finally"
    /\ ci <= Len(CleanupPaths)
    /\ ~(CleanupPaths[ci] # "none" /\ CleanupPaths[ci] \in fs)
    /\ ci' = ci + 1
    /\ UNCHANGED <<pc, fs, delAttempted, delFailed, cleanupRest>>

\* the finally clause is over: the computed response is returned
Return ==
    /\ pc = "finally"
    /\ ci > Len(CleanupPaths)
    /\ pc' = "done"
    /\ UNCHANGED <<reqVars, respVars, calls, asrVars, transcript, sumVars,
                   gmVars>>

(***************************************************************************)
(* One POST /process request, from the upload to the returned response     *)
(***************************************************************************)
Init ==
    /\ pc = "validate"
    /\ req \in Requests
    /\ tmp_in = "none"
    /\ wav_path = "none"
    /\ file_size = 0
    /\ fs = {}
    /\ created = {}
    /\ delAttempted = {}
    /\ delFailed = {}
    /\ ci = 1
    /\ status = 0
    /\ body = NoBody
    /\ failed = "none"
    /\ calls = <<>>
    /\ AsrIdle
    /\ wavfmt = GoodFmt
    /\ transcript = <<>>
    /\ top_k = TopK
    /\ SumIdle
    /\ GmIdle

\* transcribe_file, step by step
AsrNext ==
    \/ AsrLoadModel
    \/ AsrLoadModelFail
    \/ AsrOpen
    \/ AsrOpenFail
    \/ AsrValidate
    \/ AsrInitFail
    \/ AsrChunkPartial
    \/ AsrChunkUtterance
    \/ AsrChunkFail
    \/ AsrFinal
    \/ AsrFinalFail

\* summarize_extract, step by step
SumNext ==
    \/ SummarizeNone
    \/ SummarizeShort
    \/ SummarizeTry
    \/ GetModelStep(Main)
    \/ SummarizeEmbed
    \/ SummarizeEncodeFail
    \/ SummarizeLoadFail

Next ==
    \/ ValidateNoField
    \/ ValidateNoName
    \/ ValidateBadType
    \/ ValidatePass
    \/ Persist
    \/ PersistFail
    \/ EmptyReject
    \/ EmptyPass
    \/ Normalize
    \/ NormalizeFail
    \/ AsrNext
    \/ TranscriptReject
    \/ TranscriptPass
    \/ SumNext
    \/ Respond
    \/ CleanupRemove
    \/ CleanupRemoveFail
    \/ CleanupSkip
    \/ Return

Spec == Init /\ [][Next]_vars

(***************************************************************************)
(* transcribe_file applied to generated waveforms: process() from line 145 *)
(* on, with the WAV at wav_path of any format and length                   *)
(***************************************************************************)
Formats ==
    [channels : {MonoChannels, MonoChannels + 1},
     width    : {SampleWidth - 1, SampleWidth},
     rate     : {TargetRate \div 2, TargetRate}]

InitAsr ==
    /\ pc = "recognize"
    /\ Normalized
    /\ calls = SubSeq(Stages, 1, 4)
    /\ wf = "none"
    /\ wavfmt \in Formats
    /\ framesLeft \in FrameCounts \cup {0}
    /\ rec = "none"
    /\ fed = 0
    /\ utterances = <<>>
    /\ flushes = 0
    /\ finalRes = NoRaw
    /\ segments = <<>>
    /\ asrExit = "none"
    /\ transcript = <<>>
    /\ top_k = TopK
    /\ SumIdle
    /\ GmIdle

\* both files exist here, so the finally clause never skips a path
NextAsr ==
    \/ AsrNext
    \/ TranscriptReject
    \/ TranscriptPass
    \/ SumNext
    \/ Respond
    \/ CleanupRemove
    \/ CleanupRemoveFail
    \/ Return

SpecAsr == InitAsr /\ [][NextAsr]_vars

(***************************************************************************)
(* summarize_extract applied to generated transcripts                      *)
(***************************************************************************)
InitSum ==
    /\ pc = "summarize"
    /\ Normalized
    /\ calls = SubSeq(Stages, 1, 5)
    /\ AsrIdle
    /\ wavfmt = GoodFmt
    /\ transcript \in Transcripts
    /\ top_k \in 1..MaxK
    /\ SumIdle
    /\ GmIdle

SpecSum == InitSum /\ [][SumNext]_vars

(***************************************************************************)
(* Concurrent requests that reach get_model() at the same time             *)
(***************************************************************************)
SixSentences == <<S1, S2, S1, S2, S1, S2>>

InitConc ==
    /\ pc = "get_model"
    /\ Normalized
    /\ calls = SubSeq(Stages, 1, 6)
    /\ wf = "closed"
    /\ wavfmt = GoodFmt
    /\ framesLeft = 0
    /\ rec = "ready"
    /\ fed = 1
    /\ utterances = <<>>
    /\ flushes = 1
    /\ finalRes = [has |-> TRUE, text |-> Join(SixSentences)]
    /\ segments = <<[text |-> Join(SixSentences)]>>
    /\ asrExit = "return"
    /\ transcript = Join(SixSentences)
    /\ top_k = TopK
    /\ sentences = SixSentences
    /\ sumPath = "none"
    /\ embedReached = 1
    /\ summary = <<>>
    /\ highlights = <<>>
    /\ model = 0
    /\ loads = 0
    /\ tpc = [t \in Threads |-> "check"]
    /\ built = [t \in Threads |-> 0]
    /\ got = [t \in Threads |-> 0]

NextConc == \E t \in Threads : GetModelStep(t)

SpecConc == InitConc /\ [][NextConc]_vars

(***************************************************************************)
(* Properties                                                              *)
(***************************************************************************)
Tokens(m) == {m[i] : i \in DOMAIN m}

Prefix(a, b) == Len(a) <= Len(b) /\ SubSeq(b, 1, Len(a)) = a

\* C1: whatever step rejects or fails, or when the request succeeds, by the
\* time the response is returned os.remove was attempted on every file the
\* request created (the persisted upload, the intermediate WAV); a file whose
\* deletion did not fail no longer exists; and nothing the finally clause
\* does, a failing deletion included, changes the computed status and body.
C1_CleanupAlways ==
    /\ [](pc = "done" =>
            /\ created \subseteq delAttempted
            /\ \A f \in created \ delFailed : f \notin fs
            /\ delFailed \subseteq fs)
    /\ [][pc = "finally" => (status' = status /\ body' = body)]_vars

\* C1 witness: a successful request is returned after the deletion of the
\* WAV failed and the deletion of the upload succeeded.
C1_Witness ==
    /\ pc = "done"
    /\ status = 200
    /\ created = {"upload", "wav"}
    /\ delFailed = {"wav"}
    /\ fs = {"wav"}

\* C2: across any interleaving of requests that call get_model() for the
\* first time, SentenceTransformer is constructed at most once and every
\* caller receives the same handle.
C2_LoadedOnce ==
    /\ loads <= 1
    /\ \A t, u \in Threads : (got[t] # 0 /\ got[u] # 0) => got[t] = got[u]

LibraryTokens == {"<decoder>", "<resample>", "<soundfile>", "<vosk>", "<json>"}

\* C3 as stated: a failure raised by the audio decoder during normalization
\* or by the recognizer during transcription is answered with status 500 and
\* the exception's message, not with 400.
C3_Unexpected500 ==
    (pc = "done" /\ Tokens(body.msg) \cap LibraryTokens # {}) =>
        (status = 500 /\ Head(body.msg) = "Processing failed: ")

\* C3 amended: every exception raised during normalization, decoder
\* exceptions included, leaves save_wav_mono_16k as a ValueError and is
\* answered with 400 "Audio format error: ..." and its message, as is a
\* ValueError raised while the recognizer streams; an exception that reaches
\* process() as anything but a ValueError (saving the upload, loading the
\* Vosk model, building or running the recognizer) is answered with 500
\* "Processing failed: ..." and its message.
C3_ByExceptionKind ==
    pc = "done" =>
        /\ failed = "normalize" =>
             (status = 400 /\ Head(body.msg) = "Audio format error: ")
        /\ Tokens(body.msg) \cap {"<decoder>", "<resample>", "<soundfile>", "<json>"} # {} =>
             (status = 400 /\ Head(body.msg) = "Audio format error: ")
        /\ Tokens(body.msg) \cap {"<vosk>", "<os>"} # {} =>
             (status = 500 /\ Head(body.msg) = "Processing failed: ")

\* C3 witness: the decoder raised during normalization and the request was
\* answered with 400.
C3_Witness ==
    /\ pc = "done"
    /\ failed = "normalize"
    /\ "<decoder>" \in Tokens(body.msg)
    /\ status = 400

NotesTxt == <<"n", "o", "t", "e", "s", ".", "t", "x", "t">>

\* C4: the stages run in the order validate, persist, empty-file check,
\* normalize, recognize, summarize, respond, each at most once, and none
\* after a stage that rejected or raised; a request without the field, with
\* an empty filename, with a disallowed extension (notes.txt) or, once
\* persisted, with a 0-byte file gets 400 and neither the normalizer nor the
\* recognizer is invoked; an empty or blank transcript gets 400 and the
\* summarizer is not invoked.
C4_StageOrder ==
    /\ Prefix(calls, Stages)
    /\ failed # "none" => (calls # <<>> /\ calls[Len(calls)] = failed)
    /\ (pc = "done" /\ (\/ ~req.hasField
                        \/ req.filename = <<>>
                        \/ req.filename = NotesTxt
                        \/ SplitExt(LowerAll(req.filename)) \notin ALLOWED_EXT)) =>
          (status = 400 /\ calls = <<"validate">>)
    /\ (pc = "done" /\ req.size = 0 /\ "empty_check" \in Tokens(calls)) =>
          (status = 400 /\ calls = SubSeq(Stages, 1, 3))
    /\ (pc = "done" /\ asrExit = "return" /\ Strip(transcript) = <<>>) =>
          (status = 400 /\ "summarize" \notin Tokens(calls))

\* C4 witness: notes.txt was rejected with 400 after validation alone.
C4_Witness ==
    /\ pc = "done"
    /\ req.filename = NotesTxt
    /\ status = 400
    /\ calls = <<"validate">>

\* strictly increasing index sequences of length k over 1..n
Increasing(n, k) ==
    {SortedSeq(S) : S \in {T \in SUBSET (1..n) : Cardinality(T) = k}}

\* C5: when there are more than top_k sentences and embedding succeeds, there
\* are exactly top_k highlights with non-increasing scores, and the summary
\* is the single-space join of the same top_k sentences taken in strictly
\* increasing original position, whatever the score order is.
C5_TopKSelection ==
    sumPath = "embed" =>
        /\ Len(sentences) > top_k
        /\ Len(highlights) = top_k
        /\ \A i \in 1..(Len(highlights) - 1) :
             highlights[i].score >= highlights[i + 1].score
        /\ \E idx \in Increasing(Len(sentences), top_k) :
             /\ summary = Join([i \in 1..top_k |-> sentences[idx[i]]])
             /\ \E pi \in [1..top_k -> Range(idx)] :
                  /\ \A i, j \in 1..top_k : i # j => pi[i] # pi[j]
                  /\ \A i \in 1..top_k : highlights[i].sentence = sentences[pi[i]]

\* C5 witness: two highlights whose score order is the reverse of their
\* document order.
C5_Witness ==
    /\ sumPath = "embed"
    /\ top_k = 2
    /\ highlights[1].score > highlights[2].score
    /\ highlights[1].sentence # highlights[2].sentence
    /\ summary = Join(<<highlights[2].sentence, highlights[1].sentence>>)

\* least position >= p at which s occurs in text, or 0
RECURSIVE FindFrom(_, _, _)
FindFrom(text, s, p) ==
    IF p + Len(s) - 1 > Len(text) THEN 0
    ELSE IF SubSeq(text, p, p + Len(s) - 1) = s THEN p
    ELSE FindFrom(text, s, p + 1)

\* the sentences occur in text one after the other, without overlap
RECURSIVE InOrder(_, _, _)
InOrder(text, sents, p) ==
    IF sents = <<>> THEN TRUE
    ELSE LET q == FindFrom(text, Head(sents), p)
         IN q # 0 /\ InOrder(text, Tail(sents), q + Len(Head(sents)))

\* C6: for a transcript with at least one and at most top_k sentences there
\* is one highlight per sentence, in original order, each with score 1.0,
\* the summary is the trimmed input transcript, and get_model/encode are
\* never reached.
C6_ShortCircuit ==
    LET sents == sentence_tokenize(transcript)
    IN (pc = "respond" /\ Len(sents) >= 1 /\ Len(sents) <= top_k) =>
          /\ sumPath = "short"
          /\ Len(highlights) = Len(sents)
          /\ \A i \in 1..Len(sents) :
               highlights[i] = [sentence |-> sents[i], score |-> ScoreOne]
          /\ InOrder(transcript, [i \in 1..Len(highlights) |-> highlights[i].sentence], 1)
          /\ summary = Strip(transcript)
          /\ embedReached = 0
          /\ loads = 0

\* C6 witness: two sentences, top_k = 2, and a transcript that is not just
\* the join of its sentences.
C6_Witness ==
    /\ pc = "respond"
    /\ sumPath = "short"
    /\ top_k = 2
    /\ Len(highlights) = 2
    /\ highlights[1].sentence # highlights[2].sentence
    /\ summary # Join(sentences)

\* C7: when there are more than top_k sentences and embedding or scoring
\* fails, summarize_extract raises nothing: the summary is the first top_k
\* sentences in document order joined by single spaces, the highlights are
\* the same sentences in the same order with score 0.0, and the request
\* completes with status 200.
C7_Fallback ==
    sumPath = "fallback" =>
        LET sents == sentence_tokenize(transcript)
        IN /\ Len(sents) > top_k
           /\ summary = Join(SubSeq(sents, 1, top_k))
           /\ Len(highlights) = top_k
           /\ \A i \in 1..top_k :
                highlights[i] = [sentence |-> sents[i], score |-> ScoreZero]
           /\ failed = "none"
           /\ pc \in {"respond", "finally", "done"}
           /\ pc \in {"finally", "done"} => (status = 200 /\ body.tag = "result")

\* C7 witness: a request whose model load failed was answered with 200.
C7_Witness ==
    /\ pc = "done"
    /\ sumPath = "fallback"
    /\ tpc[Main] = "idle"
    /\ loads = 0
    /\ status = 200

Kept(raw) == raw.has /\ Strip(raw.text) # <<>>

KeptTexts(raws) ==
    LET k == SelectSeq(raws, Kept) IN [i \in 1..Len(k) |-> Strip(k[i].text)]

\* C8: transcribe_file returns one segment per reported utterance whose
\* trimmed text is not empty, in the order reported, followed by the result
\* of exactly one final flush if its trimmed text is not empty; every chunk
\* was fed; the transcript is the single-space join of the segment texts.
C8_Segments ==
    asrExit = "return" =>
        /\ flushes = 1
        /\ framesLeft = 0
        /\ [i \in 1..Len(segments) |-> segments[i].text]
             = KeptTexts(Append(utterances, finalRes))
        /\ transcript = Join([i \in 1..Len(segments) |-> segments[i].text])

\* C8 witness: two utterances of which one was dropped, and a final flush
\* that was appended.
C8_Witness ==
    /\ asrExit = "return"
    /\ Len(utterances) = 2
    /\ Kept(utterances[2])
    /\ ~Kept(utterances[1])
    /\ Kept(finalRes)
    /\ Len(segments) = 2

Expected ==
    [channels |-> <<"WAV must be mono (1 channel), got ", " channels">>,
     width    |-> <<"WAV must be 16-bit (2 bytes), got ", " bytes">>,
     rate     |-> <<"WAV must be 16kHz, got ", "Hz">>]

\* C9: once the waveform is open, a format other than 1 channel, 2-byte
\* samples, 16000 Hz makes transcribe_file raise a format error that names
\* the expected and the actual value of a violated property before any chunk
\* is fed, and the request is answered with 400 (for 2 channels the message
\* holds "mono" and "2 channels").
C9_FormatError ==
    (wf # "none" /\ pc # "asr_validate" /\ wavfmt # GoodFmt) =>
        /\ asrExit = "raise"
        /\ fed = 0
        /\ rec = "none"
        /\ status = 400
        /\ \E f \in {"channels", "width", "rate"} :
             /\ wavfmt[f] # GoodFmt[f]
             /\ body.msg = <<"Audio format error: ", Expected[f][1],
                             ToString(wavfmt[f]), Expected[f][2]>>
        /\ wavfmt.channels = 2 =>
             body.msg = <<"Audio format error: ",
                          "WAV must be mono (1 channel), got ", "2", " channels">>

\* C9 witness: a 2-channel WAV was answered with 400.
C9_Witness ==
    /\ pc = "done"
    /\ wavfmt.channels = 2
    /\ wf = "closed"
    /\ status = 400

\* C10: once transcribe_file has opened the waveform, the handle is closed on
\* every path by which transcribe_file exits.
C10_HandleClosed ==
    (asrExit # "none" /\ wf # "none") => wf = "closed"

====
